---- MODULE Spec2Model ----
(***************************************************************************)
(* A model of the sage pipeline driver (src/bin/sage.rs) and of the        *)
(* retention time model (crates/sage/src/ml/retention_model.rs).           *)
(*                                                                         *)
(* Option<T> is a sequence of length at most one: None is << >> and        *)
(* Some(v) is <<v>>.  Result<T, E> is a pair <<"Ok", v>> or <<"Err", e>>.  *)
(* Masses and tolerances are fixed-point numbers in 1/100 Da (or 1/100     *)
(* ppm), so that 1.25 Da is 125.                                           *)
(***************************************************************************)
EXTENDS Integers, Sequences, FiniteSets, TLC

VARIABLES
    pc,            \* position of main: "start", "loaded", "built", "files", "exited"
    input,         \* the Input value the configuration file deserializes to
    search,        \* Option<Search>: the resolved parameters main threads around
    db,            \* whether search.database.build() has run
    scorer,        \* Option of the arguments handed to Scorer::new
    output_paths,  \* per input file: None while unprocessed, else Some(Result)
    score_args,    \* the report_psms arguments Scorer.score has received
    fs,            \* the files written so far: path -> content
    stdout,        \* Option<Search>: the summary printed
    exit_code,     \* Option: the exit status of the process
    \* retention model
    rt_pc,         \* "init" before predict is called, "done" after it returned
    rt_db,         \* the peptide table predict indexes
    features,      \* the slice of Feature handed to predict
    features0,     \* the slice as it was when predict was called
    rt_model,      \* Option<RetentionModel>: what RetentionModel::fit returned
    rt_result,     \* Option<()>: what predict returned
    embed_arg,     \* Option<Peptide>: the peptide handed to RetentionModel::embed
    embed_ret      \* Option<[f64; FEATURES]>: what embed returned for it

vars == <<pc, input, search, db, scorer, output_paths, score_args, fs, stdout,
          exit_code, rt_pc, rt_db, features, features0, rt_model, rt_result,
          embed_arg, embed_ret>>

main_vars == <<pc, input, search, db, scorer, output_paths, score_args, fs,
               stdout, exit_code>>

rt_vars == <<rt_pc, rt_db, features, features0, rt_model, rt_result>>

embed_vars == <<embed_arg, embed_ret>>

None == << >>

Some(v) == <<v>>

IsSome(o) == Len(o) = 1

Unwrap(o) == o[1]

unwrap_or(o, d) == IF IsSome(o) THEN o[1] ELSE d

Ok(v) == <<"Ok", v>>

Err(e) == <<"Err", e>>

IsOk(r) == r[1] = "Ok"

Min(a, b) == IF a <= b THEN a ELSE b

Max(a, b) == IF a >= b THEN a ELSE b

Abs(a) == IF a >= 0 THEN a ELSE -a

(***************************************************************************)
(* Bounds of the model.                                                    *)
(***************************************************************************)
MaxFiles == 2

(***************************************************************************)
(* Paths.  A path is its directory, the stem of its file name and          *)
(* Option<extension>, as Path::extension and Path::set_extension see it.   *)
(***************************************************************************)
MkPath(dir, stem, ext) == [dir |-> dir, stem |-> stem, ext |-> ext]

\* u8::to_ascii_lowercase over the extensions of the catalog
to_ascii_lowercase(s) ==
    CASE s = "mzML" -> "mzml"
      [] s = "MZML" -> "mzml"
      [] OTHER -> s

set_extension(p, e) == [p EXCEPT !.ext = Some(e)]

\* directory.push(path.file_name()): the file name under another directory
push_file_name(directory, p) == [p EXCEPT !.dir = directory]

ResultsJson == MkPath(".", "results", Some("json"))

(***************************************************************************)
(* PSMs.  q_value is a fraction <<numerator, denominator>>; a zero         *)
(* denominator is the float division by zero, +infinity.                   *)
(***************************************************************************)
Hit(scannr, label, hyperscore, poisson) ==
    [scannr |-> scannr, label |-> label, hyperscore |-> hyperscore,
     poisson |-> poisson, discriminant_score |-> 0, q_value |-> <<1, 1>>,
     specid |-> 0]

Spectrum(scan, level, peaks, hits) ==
    [scan |-> scan, level |-> level, peaks |-> peaks, hits |-> hits]

(***************************************************************************)
(* The input files of the model: what MzMlReader::read yields for each,    *)
(* the candidates the scorer ranks for each spectrum, and whether the      *)
(* linear discriminant can be fitted on the file's PSMs.                   *)
(***************************************************************************)
FileA ==
    [path |-> MkPath("data", "a", Some("mzML")),
     lda |-> FALSE,
     spectra |-> << Spectrum(1, 2, 20, << Hit(1, 1, 9, -9), Hit(1, -1, 4, -3) >>),
                    Spectrum(2, 2, 10, << Hit(2, 1, 7, -6) >>),
                    Spectrum(3, 3, 30, << >>) >>]

FileB ==
    [path |-> MkPath("data", "b", Some("MZML")),
     lda |-> TRUE,
     spectra |-> << Spectrum(1, 2, 20, << Hit(1, 1, 5, -2) >>),
                    Spectrum(2, 2, 20, << Hit(2, 1, 5, -4) >>),
                    Spectrum(3, 2, 20, << Hit(3, -1, 3, -4) >>) >>]

FileC ==
    [path |-> MkPath("data", "c", Some("txt")),
     lda |-> FALSE,
     spectra |-> << >>]

FileD ==
    [path |-> MkPath("data", "d", None),
     lda |-> FALSE,
     spectra |-> << >>]

FileCatalog == {FileA, FileB, FileC, FileD}

\* the file a path of mzml_paths names
FileAt(p) == CHOOSE f \in FileCatalog : f.path = p

Range(q) == {q[i] : i \in DOMAIN q}

\* sequences of at most n distinct elements of S
RECURSIVE DistinctSeqs(_, _)
DistinctSeqs(S, n) ==
    IF n = 0 THEN {<< >>}
    ELSE LET shorter == DistinctSeqs(S, n - 1)
             longest == {q \in shorter : Len(q) = n - 1}
         IN  shorter \cup
             {Append(qx[1], qx[2]) :
                 qx \in {c \in longest \X S : c[2] \notin Range(c[1])}}

(***************************************************************************)
(* Tolerance::Ppm(lo, hi) and Tolerance::Da(lo, hi), in 1/100 units.       *)
(***************************************************************************)
Ppm(lo, hi) == [kind |-> "ppm", lo |-> lo, hi |-> hi]

Da(lo, hi) == [kind |-> "da", lo |-> lo, hi |-> hi]

Tolerances == {Ppm(-5000, 5000), Da(-100, 100), Da(-300, 50), Da(-200, 200)}

(***************************************************************************)
(* struct Input: what serde_json::from_reader yields.  The fields that     *)
(* only parameterise the database, the spectrum processor and the fragment *)
(* tolerance (fragment_tol, max_peaks, deisotope) are passed through       *)
(* unread by the driver and are left out.                                  *)
(***************************************************************************)
Inputs ==
    [database : {"ok.fasta", "missing.fasta"},
     precursor_tol : Tolerances,
     report_psms : {None, Some(1), Some(2)},
     chimera : {None, Some(TRUE), Some(FALSE)},
     min_peaks : {None, Some(5)},
     isotope_errors : {None, Some(<<-1, 0>>), Some(<<-1, 3>>), Some(<<1, 0>>)},
     process_files_parallel : {None, Some(TRUE), Some(FALSE)},
     output_directory : {None, Some("out")},
     mzml_paths : DistinctSeqs({f.path : f \in FileCatalog}, MaxFiles)]

\* the configuration files of the model: unreadable or malformed (None), or
\* one that deserializes
ConfigFiles == {None} \cup {Some(i) : i \in Inputs}

DefaultReportPsms == 1

DefaultMinPeaks == 15

Panic(msg) == <<"Panic", msg>>

IsPanic(r) == r[1] = "Panic"

IsErr(r) == r[1] = "Err"

Search_load_unchecked(config) ==
    IF ~IsSome(config) THEN Err("configuration")
    ELSE LET request == Unwrap(config)
         IN  Ok([database |-> request.database,
                 precursor_tol |-> request.precursor_tol,
                 report_psms |-> unwrap_or(request.report_psms, DefaultReportPsms),
                 min_peaks |-> unwrap_or(request.min_peaks, DefaultMinPeaks),
                 isotope_errors |-> unwrap_or(request.isotope_errors, <<0, 0>>),
                 chimera |-> unwrap_or(request.chimera, FALSE),
                 pin_paths |-> << >>,
                 mzml_paths |-> request.mzml_paths,
                 process_files_parallel |->
                     unwrap_or(request.process_files_parallel, TRUE),
                 output_directory |-> request.output_directory])

\* Search::load: Err when the file cannot be opened or parsed, a panic when
\* isotope_errors is inverted, else the resolved Search
Search_load(config) ==
    IF ~IsSome(config) THEN Err("configuration")
    ELSE LET request == Unwrap(config)
             isotope_errors == unwrap_or(request.isotope_errors, <<0, 0>>)
         IN  IF isotope_errors[1] > isotope_errors[2]
             THEN Panic("Minimum isotope_error value greater than maximum!")
             ELSE Ok([database |-> request.database,
                      precursor_tol |-> request.precursor_tol,
                      report_psms |-> unwrap_or(request.report_psms, DefaultReportPsms),
                      min_peaks |-> unwrap_or(request.min_peaks, DefaultMinPeaks),
                      isotope_errors |-> unwrap_or(request.isotope_errors, <<0, 0>>),
                      chimera |-> unwrap_or(request.chimera, FALSE),
                      pin_paths |-> << >>,
                      mzml_paths |-> request.mzml_paths,
                      process_files_parallel |->
                          unwrap_or(request.process_files_parallel, TRUE),
                      output_directory |-> request.output_directory])

\* search.database.clone().build()
database_build(database) ==
    IF database = "ok.fasta" THEN Ok("db") ELSE Err("database")

ChimeraHalfWidth == 125

precursor_tol_unwidened(s) == s.precursor_tol

\* main, lines 280-295: the precursor tolerance handed to Scorer::new
precursor_tol_of(s) ==
    IF s.chimera /\ s.isotope_errors[2] < 1
    THEN IF s.precursor_tol.kind = "ppm"
         THEN Da(-ChimeraHalfWidth, ChimeraHalfWidth)
         ELSE Da(Min(s.precursor_tol.lo, -ChimeraHalfWidth),
                 Max(s.precursor_tol.hi, ChimeraHalfWidth))
    ELSE s.precursor_tol

\* Scorer::new(&db, precursor_tol, fragment_tol, lo, hi, chimera)
Scorer_new(precursor_tol, min_isotope_err, max_isotope_err, chimera) ==
    [precursor_tol |-> precursor_tol, min_isotope_err |-> min_isotope_err,
     max_isotope_err |-> max_isotope_err, chimera |-> chimera]

(***************************************************************************)
(* The per-file routines.                                                  *)
(***************************************************************************)
\* Scorer::score(&spectrum, report_psms): the report_psms best candidates of
\* an MS2 spectrum, in rank order
Scorer_score(spectrum, report_psms) ==
    IF spectrum.level = 2
    THEN SubSeq(spectrum.hits, 1, Min(report_psms, Len(spectrum.hits)))
    ELSE << >>

RECURSIVE Concat(_)
Concat(qs) == IF qs = << >> THEN << >> ELSE Head(qs) \o Concat(Tail(qs))

\* filter(mz.len() >= min_peaks) . map(process) . flat_map(score) . collect;
\* SpectrumProcessor::process prepares the peaks the scorer matches, which
\* are folded into the candidates each spectrum carries
scored_spectra(spectra, s) ==
    Concat([i \in DOMAIN spectra |->
               IF spectra[i].peaks >= s.min_peaks
               THEN Scorer_score(spectra[i], s.report_psms)
               ELSE << >>])

\* for spectrum in &spectra: level 2 only, the first hit of each
sps_scored_spectra(spectra, s) ==
    Concat([i \in DOMAIN spectra |->
               IF spectra[i].level = 2
               THEN SubSeq(Scorer_score(spectra[i], s.report_psms), 1, 1)
               ELSE << >>])

\* sage::lda::score_psms: None when no discriminant can be fitted, else every
\* PSM gets its projection as discriminant_score
lda_score_psms(scores, fit) ==
    IF fit
    THEN Some([i \in DOMAIN scores |->
                 [scores[i] EXCEPT !.discriminant_score = scores[i].hyperscore]])
    ELSE None

\* |a, b| b.discriminant_score.total_cmp(&a.discriminant_score) is not Greater
by_discriminant_asc(a, b) == a.discriminant_score <= b.discriminant_score

by_discriminant(a, b) == a.discriminant_score >= b.discriminant_score

\* |a, b| a.poisson.total_cmp(&b.poisson) is not Greater
by_poisson(a, b) == a.poisson <= b.poisson

\* the comparator closure named cmp does not order b before a
InOrder(cmp, a, b) ==
    IF cmp = "discriminant" THEN by_discriminant(a, b) ELSE by_poisson(a, b)

IsSortedBy(q, cmp) ==
    \A i, j \in DOMAIN q : i < j => InOrder(cmp, q[i], q[j])

\* par_sort_unstable_by: every arrangement of the slice that the comparator
\* accepts; the order among equal elements is not specified
par_sort_unstable_by(q, cmp) ==
    {r \in {[i \in DOMAIN q |-> q[perm[i]]] : perm \in Permutations(DOMAIN q)} :
        IsSortedBy(r, cmp)}

\* a / b <= c / d for fractions with numerators >= 1, x / 0 being +infinity
FracLe(x, y) == x[1] * y[2] <= y[1] * x[2]

FracMin(x, y) == IF FracLe(x, y) THEN x ELSE y

CountLabel(q, n, decoy) ==
    Cardinality({i \in 1..n : (q[i].label = -1) = decoy})

\* the running minimum of the raw FDR from position i to the bottom
RECURSIVE QMin(_, _)
QMin(q, i) ==
    LET raw == <<CountLabel(q, i, TRUE) + 1, CountLabel(q, i, FALSE)>>
    IN  IF i = Len(q) THEN raw ELSE FracMin(raw, QMin(q, i + 1))

\* sage::scoring::assign_q_values: FDR = (decoys + 1) / targets down the
\* ranked list, made monotone from the bottom up
assign_q_values(scores) ==
    [i \in DOMAIN scores |-> [scores[i] EXCEPT !.q_value = QMin(scores, i)]]

\* for (idx, mut score) in scores.into_iter().enumerate(): score.specid = idx
enumerate_specid(scores) ==
    [i \in DOMAIN scores |-> [scores[i] EXCEPT !.specid = i - 1]]

\* the .sage.pin path of an input, under output_directory when it is set
pin_path(p, s) ==
    LET path == set_extension(p, "sage.pin")
    IN  IF IsSome(s.output_directory)
        THEN push_file_name(Unwrap(s.output_directory), path)
        ELSE path

Outcome(result, writes, calls) ==
    [result |-> result, writes |-> writes, calls |-> calls]

NoWrites == [x \in {} |-> << >>]

\* the extension check both routines open with: TRUE when it panics
extension_panics(p) ==
    \/ ~IsSome(p.ext)
    \/ to_ascii_lowercase(Unwrap(p.ext)) # "mzml"

\* csv writer: from_path may fail, and so may the first serialize
write_tsv(path, rows, calls) ==
    { Outcome(Err("create"), NoWrites, calls),
      Outcome(Err("serialize"), path :> << >>, calls),
      Outcome(Ok(path), path :> rows, calls) }

\* the PSMs of a file after rescoring, in the orders the sort can leave them
sorted_scores(scores, fit) ==
    LET rescored == lda_score_psms(scores, fit)
    IN  IF IsSome(rescored)
        THEN par_sort_unstable_by(Unwrap(rescored), "discriminant")
        ELSE par_sort_unstable_by(scores, "poisson")

\* process_mzml_file: every outcome of one call, over the failures of the
\* reader and the writer and the orders the unstable sort can produce
process_mzml_file(p, s) ==
    IF extension_panics(p)
    THEN {Outcome(Panic("expecting .mzML files as input!"), NoWrites, {})}
    ELSE LET file == FileAt(p)
             calls == {s.report_psms : i \in
                          {j \in DOMAIN file.spectra :
                              file.spectra[j].peaks >= s.min_peaks}}
             scores == scored_spectra(file.spectra, s)
         IN  {Outcome(Err("read"), NoWrites, {})} \cup
             UNION { write_tsv(pin_path(p, s),
                               enumerate_specid(assign_q_values(sorted)), calls) :
                     sorted \in sorted_scores(scores, file.lda) }

QuantHeader == << <<"scannr", "tmt_1", "tmt_2", "tmt_3", "tmt_4", "tmt_5", "tmt_6",
                   "tmt_7", "tmt_8", "tmt_9", "tmt_10", "tmt_11">> >>

\* process_mzml_file_sps: every outcome of one call
process_mzml_file_sps(p, s) ==
    IF extension_panics(p)
    THEN {Outcome(Panic("expecting .mzML files as input!"), NoWrites, {})}
    ELSE LET file == FileAt(p)
             quant == set_extension(p, "quant.csv")
             calls == {s.report_psms : i \in
                          {j \in DOMAIN file.spectra : file.spectra[j].level = 2}}
             scores == sps_scored_spectra(file.spectra, s)
             pin == UNION { write_tsv(pin_path(p, s),
                                      enumerate_specid(assign_q_values(sorted)),
                                      calls) :
                            sorted \in par_sort_unstable_by(scores, "poisson") }
         IN  {Outcome(Err("read"), NoWrites, {}),
              Outcome(Err("create"), NoWrites, {}),
              Outcome(Err("flush"), quant :> << >>, calls)} \cup
             {Outcome(o.result, o.writes @@ (quant :> QuantHeader), o.calls) :
                 o \in pin}

(***************************************************************************)
(* The retention time model.  Residues are bytes.  The entries of an       *)
(* embedding and the regression coefficients are fixed-point numbers in    *)
(* 1/10, retention times in 1/100, so that the product of an entry and a   *)
(* coefficient is a retention time; spectrum_q is in 1/1000.               *)
(***************************************************************************)
Fixed(n) == n * 10

\* crate::mass::VALID_AA: the 20 canonical residues, ACDEFGHIKLMNPQRSTVWY
VALID_AA == <<65, 67, 68, 69, 70, 71, 72, 73, 75, 76,
              77, 78, 80, 81, 82, 83, 84, 86, 87, 89>>

FEATURES == Len(VALID_AA) * 3 + 3

N_TERMINAL == Len(VALID_AA)

C_TERMINAL == Len(VALID_AA) * 2

PEPTIDE_LEN == FEATURES - 3

PEPTIDE_MASS == FEATURES - 2

INTERCEPT == FEATURES - 1

\* fit, lines 64-67: residue - b'A' -> index into VALID_AA, 0 for the rest
aa_map ==
    [c \in 0..25 |->
        IF \E idx \in 0..(Len(VALID_AA) - 1) : VALID_AA[idx + 1] - 65 = c
        THEN CHOOSE idx \in 0..(Len(VALID_AA) - 1) : VALID_AA[idx + 1] - 65 = c
        ELSE 0]

Peptide(sequence, monoisotopic) ==
    [sequence |-> sequence, monoisotopic |-> monoisotopic]

\* f64::ln_1p over the masses of the model, in 1/10
ln_1p(m) ==
    CASE m = 0 -> 0
      [] m = 500 -> 62
      [] m = 1500 -> 73
      [] m = 3000 -> 80

saturating_sub(a, b) == IF a >= b THEN a - b ELSE 0

Bump(embedding, i) == [embedding EXCEPT ![i] = @ + Fixed(1)]

\* the arms of the match on aa_idx: the first arm that matches is taken
terminal_arm(embedding, aa_idx, idx, cterm) ==
    IF aa_idx \in {0, 1} THEN Bump(embedding, N_TERMINAL + idx)
    ELSE IF aa_idx = cterm \/ aa_idx = cterm + 1
         THEN Bump(embedding, C_TERMINAL + idx)
         ELSE embedding

\* the loop of embed over (aa_idx, residue), from position aa_idx on
RECURSIVE embed_loop(_, _, _, _)
embed_loop(sequence, map, aa_idx, embedding) ==
    IF aa_idx >= Len(sequence) THEN embedding
    ELSE LET idx == map[sequence[aa_idx + 1] - 65]
             cterm == saturating_sub(Len(sequence), 3)
         IN  embed_loop(sequence, map, aa_idx + 1,
                        terminal_arm(Bump(embedding, idx), aa_idx, idx, cterm))

\* RetentionModel::embed
embed(p, map) ==
    LET counted == embed_loop(p.sequence, map, 0, [i \in 0..(FEATURES - 1) |-> 0])
    IN  [counted EXCEPT ![PEPTIDE_LEN] = Fixed(Len(p.sequence)),
                        ![PEPTIDE_MASS] = ln_1p(p.monoisotopic),
                        ![INTERCEPT] = Fixed(1)]

Feature(peptide_idx, label, spectrum_q, aligned_rt) ==
    [peptide_idx |-> peptide_idx, label |-> label, spectrum_q |-> spectrum_q,
     aligned_rt |-> aligned_rt, predicted_rt |-> 0, delta_rt_model |-> 0]

RECURSIVE SumTo(_, _)
SumTo(f, n) == IF n = 0 THEN 0 ELSE f[n] + SumTo(f, n - 1)

\* the sum of the sequence of numbers q
Sum(q) == SumTo(q, Len(q))

\* v.into_iter().zip(&beta).fold(0.0, |sum, (x, y)| sum + x * y)
Dot(v, beta) == Sum([k \in 1..FEATURES |-> v[k - 1] * beta[k - 1]])

\* feat.label == 1 && feat.spectrum_q <= 0.01
in_training_set(feat) == feat.label = 1 /\ feat.spectrum_q <= 10

training_filter(training_set) == SelectSeq(training_set, in_training_set)

\* the coefficient vectors the solver returns in the model
Beta(intercept, len, mass, ala) ==
    [k \in 0..(FEATURES - 1) |->
        CASE k = INTERCEPT -> intercept
          [] k = PEPTIDE_LEN -> len
          [] k = PEPTIDE_MASS -> mass
          [] k = 0 -> ala
          [] OTHER -> 0]

ZeroBeta == Beta(0, 0, 0, 0)

Betas == {ZeroBeta, Beta(5, 0, 0, 0), Beta(0, 10, 0, 0), Beta(0, 0, -3, 0),
          Beta(2, 0, 0, 1)}

\* Gauss::solve(cov, b) for cov = X'X + 0.1 I and b = X'rt: without rows the
\* system is 0.1 beta = 0; else a solution, or None on a degenerate pivot
gauss_solve_outcomes(rows) ==
    IF rows = 0 THEN {Some(ZeroBeta)}
    ELSE {None} \cup {Some(b) : b \in Betas}

\* r2 = 1 - sum_squared_error / rt_var as a fraction, both scaled by the
\* number of rows; a zero denominator is the float division by zero
r_squared(rt, predicted_rt) ==
    LET n == Len(rt)
        sum_squared_error ==
            Sum([k \in DOMAIN rt |-> (predicted_rt[k] - rt[k]) * (predicted_rt[k] - rt[k])])
        rt_var_n == n * Sum([k \in DOMAIN rt |-> rt[k] * rt[k]]) - Sum(rt) * Sum(rt)
    IN  <<rt_var_n - n * sum_squared_error, rt_var_n>>

\* r2 < 0.7 in float arithmetic: x / 0 is -infinity for x < 0 and NaN for 0
R2Below07(r2) ==
    IF r2[2] > 0 THEN 10 * r2[1] < 7 * r2[2] ELSE r2[1] < 0

\* RetentionModel::fit: every outcome of one call, over the solver's outcomes
fit(database, training_set) ==
    LET selected == training_filter(training_set)
        rt == [k \in DOMAIN selected |-> selected[k].aligned_rt]
        rows == [k \in DOMAIN selected |->
                    embed(database[selected[k].peptide_idx + 1], aa_map)]
    IN  { IF IsSome(solved)
          THEN Some([beta |-> Unwrap(solved), map |-> aa_map,
                     r2 |-> r_squared(rt, [k \in DOMAIN rows |->
                                              Dot(rows[k], Unwrap(solved))])])
          ELSE None :
          solved \in gauss_solve_outcomes(Len(rows)) }

\* RetentionModel::predict_peptide
predict_peptide(lr, database, psm) ==
    Dot(embed(database[psm.peptide_idx + 1], lr.map), lr.beta)

no_clamp(x, lo, hi) == x

\* f64::clamp
clamp(x, lo, hi) == IF x < lo THEN lo ELSE IF x > hi THEN hi ELSE x

\* the closure predict runs on every feature
predict_one(lr, database, feat) ==
    LET rt == predict_peptide(lr, database, feat)
        bounded == clamp(rt, 0, 100)
    IN  [feat EXCEPT !.predicted_rt = bounded,
                     !.delta_rt_model = Abs(feat.aligned_rt - bounded)]

\* predict: every outcome of one call: what it returns, the model it fitted
\* and the slice as it leaves it
predict(database, feats) ==
    { IF IsSome(lr)
      THEN [ret |-> Some(<< >>), model |-> lr,
            features |-> [k \in DOMAIN feats |->
                             predict_one(Unwrap(lr), database, feats[k])]]
      ELSE [ret |-> None, model |-> lr, features |-> feats] :
      lr \in fit(database, feats) }

(***************************************************************************)
(* main.                                                                   *)
(***************************************************************************)
RtIdle ==
    /\ rt_pc = "idle"
    /\ rt_db = << >>
    /\ features = << >>
    /\ features0 = << >>
    /\ rt_model = None
    /\ rt_result = None

EmbedIdle ==
    /\ embed_arg = None
    /\ embed_ret = None

Init ==
    /\ pc = "start"
    /\ input \in ConfigFiles
    /\ search = None
    /\ db = None
    /\ scorer = None
    /\ output_paths = << >>
    /\ score_args = {}
    /\ fs = NoWrites
    /\ stdout = None
    /\ exit_code = None
    /\ RtIdle
    /\ EmbedIdle

\* main returns Err (exit status 1) or unwinds from a panic (exit status 101)
Exit(code) ==
    /\ pc' = "exited"
    /\ exit_code' = Some(code)

\* let mut search = Search::load(path)?;
Load ==
    /\ pc = "start"
    /\ LET loaded == Search_load(input)
       IN  \/ /\ IsOk(loaded)
              /\ search' = Some(loaded[2])
              /\ pc' = "loaded"
              /\ UNCHANGED exit_code
           \/ /\ IsErr(loaded)
              /\ Exit(1)
              /\ UNCHANGED search
           \/ /\ IsPanic(loaded)
              /\ Exit(101)
              /\ UNCHANGED search
    /\ UNCHANGED <<input, db, scorer, output_paths, score_args, fs, stdout>>
    /\ UNCHANGED <<rt_vars, embed_vars>>

\* let db = search.database.clone().build()?;
BuildDatabase ==
    /\ pc = "loaded"
    /\ LET built == database_build(Unwrap(search).database)
       IN  \/ /\ IsOk(built)
              /\ db' = Some(built[2])
              /\ pc' = "built"
              /\ UNCHANGED exit_code
           \/ /\ IsErr(built)
              /\ Exit(1)
              /\ UNCHANGED db
    /\ UNCHANGED <<input, search, scorer, output_paths, score_args, fs, stdout>>
    /\ UNCHANGED <<rt_vars, embed_vars>>

\* lines 280-308: the tolerance override, the report_psms warning (which
\* changes nothing) and Scorer::new
NewScorer ==
    /\ pc = "built"
    /\ LET s == Unwrap(search)
       IN  /\ scorer' = Some(Scorer_new(precursor_tol_of(s), s.isotope_errors[1],
                                        s.isotope_errors[2], s.chimera))
           /\ output_paths' = [i \in DOMAIN s.mzml_paths |-> None]
    /\ pc' = "files"
    /\ UNCHANGED <<input, search, db, score_args, fs, stdout, exit_code>>
    /\ UNCHANGED <<rt_vars, embed_vars>>

\* the files main may take up next: any unprocessed one under par_iter, the
\* first unprocessed one under iter
Schedulable(s) ==
    LET pending == {i \in DOMAIN output_paths : ~IsSome(output_paths[i])}
    IN  IF s.process_files_parallel
        THEN pending
        ELSE {i \in pending : \A j \in pending : i <= j}

\* the routine main maps over mzml_paths
per_file_routine(p, s) ==
    IF s.process_files_parallel
    THEN process_mzml_file(p, s)
    ELSE process_mzml_file_sps(p, s)

\* one call of the per-file routine; a panic in it ends the process
ProcessFile(i) ==
    /\ pc = "files"
    /\ i \in Schedulable(Unwrap(search))
    /\ \E o \in per_file_routine(Unwrap(search).mzml_paths[i], Unwrap(search)) :
          /\ fs' = o.writes @@ fs
          /\ score_args' = score_args \cup o.calls
          /\ \/ /\ IsPanic(o.result)
                /\ Exit(101)
                /\ UNCHANGED output_paths
             \/ /\ ~IsPanic(o.result)
                /\ output_paths' = [output_paths EXCEPT ![i] = Some(o.result)]
                /\ UNCHANGED <<pc, exit_code>>
    /\ UNCHANGED <<input, search, db, scorer, stdout>>
    /\ UNCHANGED <<rt_vars, embed_vars>>

RECURSIVE filter_map_ok(_)
filter_map_ok(results) ==
    IF results = << >> THEN << >>
    ELSE LET r == Unwrap(Head(results))
         IN  (IF IsOk(r) THEN <<r[2]>> ELSE << >>) \o filter_map_ok(Tail(results))

\* lines 323-349: collect pin_paths, print the summary, write results.json
Summarize ==
    /\ pc = "files"
    /\ \A i \in DOMAIN output_paths : IsSome(output_paths[i])
    /\ LET results == [Unwrap(search) EXCEPT !.pin_paths = filter_map_ok(output_paths)]
       IN  /\ search' = Some(results)
           /\ stdout' = Some(results)
           /\ \/ /\ fs' = (ResultsJson :> results) @@ fs
                 /\ Exit(0)
              \/ /\ UNCHANGED fs
                 /\ Exit(1)
    /\ UNCHANGED <<input, db, scorer, output_paths, score_args>>
    /\ UNCHANGED <<rt_vars, embed_vars>>

Next ==
    \/ Load
    \/ BuildDatabase
    \/ NewScorer
    \/ \E i \in 1..MaxFiles : ProcessFile(i)
    \/ Summarize

Spec == Init /\ [][Next]_vars

(***************************************************************************)
(* The retention model on its own: predict called once on a slice of       *)
(* features over a fixed peptide table.                                    *)
(***************************************************************************)
MaxFeatures == 2

RtPeptides == << Peptide(<<65, 65, 75>>, 500),
                 Peptide(<<87, 65, 76, 65, 65, 82>>, 1500) >>

RtFeatures ==
    {Feature(p, l, q, a) : p \in {0, 1}, l \in {1, -1}, q \in {5, 50}, a \in {0, 50}}

RECURSIVE SeqsUpTo(_, _)
SeqsUpTo(S, n) ==
    IF n = 0 THEN {<< >>}
    ELSE LET shorter == SeqsUpTo(S, n - 1)
         IN  shorter \cup
             {Append(q, x) : q \in {r \in shorter : Len(r) = n - 1}, x \in S}

MainIdle ==
    /\ pc = "idle"
    /\ input = None
    /\ search = None
    /\ db = None
    /\ scorer = None
    /\ output_paths = << >>
    /\ score_args = {}
    /\ fs = NoWrites
    /\ stdout = None
    /\ exit_code = None

InitRT ==
    /\ rt_pc = "init"
    /\ rt_db = RtPeptides
    /\ features \in SeqsUpTo(RtFeatures, MaxFeatures)
    /\ features0 = features
    /\ rt_model = None
    /\ rt_result = None
    /\ MainIdle
    /\ EmbedIdle

Predict ==
    /\ rt_pc = "init"
    /\ \E o \in predict(rt_db, features) :
          /\ features' = o.features
          /\ rt_model' = o.model
          /\ rt_result' = o.ret
    /\ rt_pc' = "done"
    /\ UNCHANGED <<rt_db, features0>>
    /\ UNCHANGED <<main_vars, embed_vars>>

NextRT == Predict

SpecRT == InitRT /\ [][NextRT]_vars

(***************************************************************************)
(* The embedding on its own: embed applied to one peptide.                 *)
(***************************************************************************)
MaxPeptideLen == 5

\* A, K, W
EmbedResidues == {65, 75, 87}

EmbedPeptides ==
    {Peptide(q, m) : q \in SeqsUpTo(EmbedResidues, MaxPeptideLen) \ {<< >>},
                     m \in {500}}

InitEmbed ==
    /\ embed_arg \in {Some(p) : p \in EmbedPeptides}
    /\ embed_ret = None
    /\ MainIdle
    /\ RtIdle

Embed ==
    /\ embed_ret = None
    /\ embed_ret' = Some(embed(Unwrap(embed_arg), aa_map))
    /\ UNCHANGED embed_arg
    /\ UNCHANGED <<main_vars, rt_vars>>

NextEmbed == Embed

SpecEmbed == InitEmbed /\ [][NextEmbed]_vars

(***************************************************************************)
(* Properties of the pipeline driver, checked under Spec.                  *)
(***************************************************************************)
\* the input files whose routine returned Ok, and the rows of their TSV
Succeeded == {i \in DOMAIN output_paths :
                 IsSome(output_paths[i]) /\ IsOk(Unwrap(output_paths[i]))}

RowsOf(i) == fs[Unwrap(output_paths[i])[2]]

\* C1: when the resolved configuration has chimera = true, report_psms is
\* forced to 1: every call of Scorer.score receives report_psms = 1, and the
\* Search value of the summary has report_psms = 1.
C1_ChimeraForcesReportPsms ==
    (IsSome(search) /\ Unwrap(search).chimera) =>
        /\ \A a \in score_args : a = 1
        /\ IsSome(stdout) => Unwrap(stdout).report_psms = 1
        /\ ResultsJson \in DOMAIN fs => fs[ResultsJson].report_psms = 1

\* the configured window is narrower than 2.5 Da: a ppm window is, at every
\* peptide mass; a Da window when hi - lo < 2.5
NarrowerThanChimeraWindow(tol) ==
    tol.kind = "ppm" \/ tol.hi - tol.lo < 250

WidenedToChimeraWindow(tol) ==
    tol.kind = "da" /\ tol.lo <= -125 /\ tol.hi >= 125

\* C2 as stated: when chimera = true and the configured precursor window is
\* narrower than 2.5 Da, the tolerance handed to Scorer::new is widened to
\* +-1.25 Da, for every tolerance kind and every valid isotope_errors pair;
\* when chimera = false the configured tolerance is passed unchanged.
C2_ChimeraWidensForEveryIsotopeErrors ==
    IsSome(scorer) =>
        LET s == Unwrap(search)
            tol == Unwrap(scorer).precursor_tol
        IN  /\ (s.chimera /\ NarrowerThanChimeraWindow(s.precursor_tol))
                  => WidenedToChimeraWindow(tol)
            /\ ~s.chimera => tol = s.precursor_tol

\* C2 as amended: when chimera = true, isotope_errors.1 < 1 and the
\* configured precursor window is narrower than 2.5 Da, the tolerance handed
\* to Scorer::new is widened to +-1.25 Da, for every tolerance kind; when
\* chimera = false the configured tolerance is passed unchanged.
C2_ChimeraWidensWithoutIsotopeErrors ==
    IsSome(scorer) =>
        LET s == Unwrap(search)
            tol == Unwrap(scorer).precursor_tol
        IN  /\ (s.chimera /\ s.isotope_errors[2] < 1
                  /\ NarrowerThanChimeraWindow(s.precursor_tol))
                  => WidenedToChimeraWindow(tol)
            /\ ~s.chimera => tol = s.precursor_tol

\* a chimeric search with a 2 Da window and no isotope errors has its scorer
C2_Witness ==
    /\ IsSome(scorer)
    /\ Unwrap(search).chimera
    /\ Unwrap(search).isotope_errors = <<-1, 0>>
    /\ Unwrap(search).precursor_tol = Da(-100, 100)
    /\ Unwrap(scorer).precursor_tol = Da(-125, 125)

\* a precedes b under discriminant descending, then poisson ascending, then
\* scan id ascending
TieBrokenOrder(a, b) ==
    \/ a.discriminant_score > b.discriminant_score
    \/ /\ a.discriminant_score = b.discriminant_score
       /\ \/ a.poisson < b.poisson
          \/ a.poisson = b.poisson /\ a.scannr <= b.scannr

SpecidIsRowIndex(rows) == \A k \in DOMAIN rows : rows[k].specid = k - 1

\* C4 as stated: the rows of a file's TSV are sorted by discriminant_score
\* descending, ties broken by poisson ascending and then scan id ascending
\* (poisson ascending in the fallback), so that the row order is determined
\* by the pooled PSMs; and row i (0-based) has specid = i.
C4_RowOrderTieBroken ==
    \A i \in Succeeded :
        /\ \A j, k \in DOMAIN RowsOf(i) :
              j < k => TieBrokenOrder(RowsOf(i)[j], RowsOf(i)[k])
        /\ SpecidIsRowIndex(RowsOf(i))

\* whether the rows of input i are ranked by the fitted discriminant
RankedByDiscriminant(i) ==
    /\ Unwrap(search).process_files_parallel
    /\ FileAt(Unwrap(search).mzml_paths[i]).lda

\* C4 as amended: the rows of a file's TSV are in discriminant_score
\* descending order (poisson ascending in the fallback and in the sequential
\* routine), the order among rows with equal keys being unspecified; and row
\* i (0-based) has specid = i.
C4_RowOrderByKey ==
    \A i \in Succeeded :
        /\ \A j, k \in DOMAIN RowsOf(i) :
              j < k =>
                 IF RankedByDiscriminant(i)
                 THEN RowsOf(i)[j].discriminant_score >= RowsOf(i)[k].discriminant_score
                 ELSE RowsOf(i)[j].poisson <= RowsOf(i)[k].poisson
        /\ SpecidIsRowIndex(RowsOf(i))

\* a TSV whose first two rows tie on the discriminant and are not in poisson
\* order has been written
C4_Witness ==
    \E i \in Succeeded :
        /\ RankedByDiscriminant(i)
        /\ Len(RowsOf(i)) >= 2
        /\ RowsOf(i)[1].discriminant_score = RowsOf(i)[2].discriminant_score
        /\ RowsOf(i)[1].poisson > RowsOf(i)[2].poisson
        /\ RowsOf(i)[2].specid = 1

\* C5: a failure while processing one input file (unreadable file, wrong or
\* missing extension, write failure) does not prevent the processing of the
\* other files: once the scorer exists the run ends only after every file is
\* handled, and pin_paths then holds exactly the output paths of the files
\* that succeeded, in input order.
C5_FileFailureIsPerFile ==
    (pc = "exited" /\ IsSome(scorer)) =>
        /\ \A i \in DOMAIN output_paths : IsSome(output_paths[i])
        /\ IsSome(stdout)
        /\ LET pins == Unwrap(stdout).pin_paths
           IN  /\ Range(pins) = {Unwrap(output_paths[i])[2] : i \in Succeeded}
               /\ Len(pins) = Cardinality(Succeeded)

\* the PSMs of a row set, without the fields rescoring and ranking assign
PsmsOf(rows) ==
    {[scannr |-> r.scannr, label |-> r.label, hyperscore |-> r.hyperscore,
      poisson |-> r.poisson] : r \in Range(rows)}

\* the PSM sets a routine writes for input file p when it succeeds
WrittenPsms(outcomes, p, s) ==
    {PsmsOf(o.writes[pin_path(p, s)]) : o \in {x \in outcomes : IsOk(x.result)}}

\* C6: for every input file, the set of PSM rows written with
\* process_files_parallel = false equals the set written with
\* process_files_parallel = true.
C6_SameRowsInBothModes ==
    \A i \in Succeeded :
        LET s == Unwrap(search)
            p == s.mzml_paths[i]
        IN  /\ PsmsOf(RowsOf(i)) \in WrittenPsms(process_mzml_file(p, s), p, s)
            /\ PsmsOf(RowsOf(i)) \in WrittenPsms(process_mzml_file_sps(p, s), p, s)

\* the summary was printed but results.json could not be written
SummaryWriteFailed == IsSome(stdout) /\ ResultsJson \notin DOMAIN fs

\* C7: when the configuration loads, the database builds and at least one
\* input file yields an output path, the process exits 0 even though other
\* input files failed; when the configuration is invalid or the database
\* cannot be built the exit is nonzero.  (A run that fails to write
\* results.json is granted to the claim as a fatal error.)
C7_ExitCode ==
    pc = "exited" =>
        /\ (IsSome(search) /\ IsSome(db) /\ Succeeded # {} /\ ~SummaryWriteFailed)
              => exit_code = Some(0)
        /\ (~IsSome(search) \/ ~IsSome(db)) => exit_code # Some(0)

InvertedIsotopeErrors(config) ==
    /\ IsSome(config)
    /\ IsSome(Unwrap(config).isotope_errors)
    /\ Unwrap(Unwrap(config).isotope_errors)[1] > Unwrap(Unwrap(config).isotope_errors)[2]

\* C8: a configuration with isotope_errors = [lo, hi], lo > hi, is rejected:
\* Search::load aborts, the database is never built, no Scorer is created, no
\* input file is processed and no output file or results.json is written.  An
\* absent isotope_errors resolves to (0, 0), and every Search that load
\* returns has isotope_errors.0 <= isotope_errors.1.
C8_InvertedIsotopeErrorsRejected ==
    /\ InvertedIsotopeErrors(input) =>
          /\ pc \in {"start", "exited"}
          /\ pc = "exited" => exit_code = Some(101)
          /\ search = None /\ db = None /\ scorer = None
          /\ output_paths = << >> /\ score_args = {}
          /\ DOMAIN fs = {} /\ stdout = None
    /\ IsSome(search) =>
          /\ Unwrap(search).isotope_errors[1] <= Unwrap(search).isotope_errors[2]
          /\ ~IsSome(Unwrap(input).isotope_errors)
                => Unwrap(search).isotope_errors = <<0, 0>>

\* load has rejected a configuration with isotope_errors = [1, 0]
C8_Witness ==
    /\ InvertedIsotopeErrors(input)
    /\ pc = "exited"
    /\ exit_code = Some(101)

(***************************************************************************)
(* Properties of the retention model, checked under SpecRT and SpecEmbed.  *)
(***************************************************************************)
\* C3: the fit is discarded whenever the training set has fewer than
\* FEATURES members or the fitted R2 is below 0.7: predict then returns None
\* and leaves predicted_rt and delta_rt_model of every feature unchanged.
C3_FitDiscarded ==
    (/\ rt_pc = "done"
     /\ \/ Len(training_filter(features0)) < FEATURES
        \/ IsSome(rt_model) /\ R2Below07(Unwrap(rt_model).r2)) =>
        /\ rt_result = None
        /\ features = features0

\* C9: after predict returns Some, every feature has 0 <= predicted_rt <= 1
\* and delta_rt_model = |aligned_rt - predicted_rt|, and aligned_rt and every
\* other field of it are unchanged.
C9_PredictClampsAndSetsDelta ==
    IsSome(rt_result) =>
        /\ Len(features) = Len(features0)
        /\ \A k \in DOMAIN features :
              /\ 0 <= features[k].predicted_rt
              /\ features[k].predicted_rt <= 100
              /\ features[k].delta_rt_model =
                    Abs(features[k].aligned_rt - features[k].predicted_rt)
              /\ [features[k] EXCEPT
                     !.predicted_rt = features0[k].predicted_rt,
                     !.delta_rt_model = features0[k].delta_rt_model] = features0[k]

\* predict returned Some for a slice in which one linear output was above 1
\* and one below 0
C9_Witness ==
    /\ IsSome(rt_result)
    /\ \E k \in DOMAIN features :
          /\ predict_peptide(Unwrap(rt_model), rt_db, features0[k]) > 100
          /\ features[k].predicted_rt = 100
          /\ features[k].delta_rt_model = 100 - features[k].aligned_rt

\* the number of the positions in S that exist in sequence q and hold residue r
CountAt(q, S, r) ==
    Cardinality({pos \in S : pos >= 0 /\ pos < Len(q) /\ q[pos + 1] = r})

\* C10: embed returns a vector of length 3 * 20 + 3 in which, for each
\* residue r, entry 2A + idx(r) counts the positions among {length - 3,
\* length - 2} holding r, entry A + idx(r) those among the first two, and
\* entry idx(r) the occurrences of r; the blocks are counted independently.
C10_EmbedCountsBlocksIndependently ==
    IsSome(embed_ret) =>
        LET e == Unwrap(embed_ret)
            q == Unwrap(embed_arg).sequence
            n == Len(q)
        IN  /\ DOMAIN e = 0..(3 * 20 + 3 - 1)
            /\ \A idx \in 0..19 :
                  LET r == VALID_AA[idx + 1]
                  IN  /\ e[2 * 20 + idx] = Fixed(CountAt(q, {n - 3, n - 2}, r))
                      /\ e[20 + idx] = Fixed(CountAt(q, {0, 1}, r))
                      /\ e[idx] = Fixed(CountAt(q, 0..(n - 1), r))

====
